---- MODULE Spec2Model ----
(***************************************************************************)
(* Model of the personal-context MCP server: the tool dispatcher           *)
(* (src/src/server.ts), the authorization gate (auth.ts) and the encrypted *)
(* entity store on sql.js (src/src/sqliteDB.ts).                           *)
(*                                                                         *)
(* Abstractions:                                                           *)
(*  - ids and IVs (randomBytes(16)) are drawn from small sets;             *)
(*  - timestamps (new Date().toISOString()) are the integer clock `now`:   *)
(*    the ISO format orders like the instant it prints;                    *)
(*  - searchable text (names, emails, queries) is a sequence of            *)
(*    one-character strings, so LIKE can be computed;                      *)
(*  - other JSON values are atoms (one-element sequences): the store      *)
(*    never looks inside them; an object is a function on its keys;        *)
(*  - JSON.stringify(v) is the text [json |-> v], JSON.parse its inverse;  *)
(*  - CryptoJS.AES.encrypt(text, passphrase) is the ciphertext             *)
(*    [alg |-> "aes", key |-> passphrase, pt |-> text], readable only      *)
(*    through Decrypt with the same passphrase.                            *)
(***************************************************************************)
EXTENDS Integers, Sequences, FiniteSets, TLC

VARIABLES
  initialized,  \* SQLiteDB.initialized: "pending" | "resolved" | "rejected"
  db,           \* SQLiteDB.db: the in-memory sql.js database (five tables)
  file,         \* content of the file at dbPath (last successful export)
  now,          \* the wall clock read by new Date()
  ioFails,      \* how many times writeFileSync has thrown in saveDatabase
  res,          \* outcome of the tool call made by the last step
  env,          \* process.env as config.ts reads it
  proc,         \* the server process: whether it has exited, and how often
                \* the database handle has been closed
  inflight,     \* store calls suspended at an await, in the order in which
                \* they will resume
  log,          \* the store operations run so far, in the order they ran
  pdb,          \* PersonalContextDB.db: the personal_info table
  pres          \* outcome of the last PersonalContextDB method call

vars ==
  <<initialized, db, file, now, ioFails, res, env, proc, inflight, log,
    pdb, pres>>

----------------------------------------------------------------------------
(* Bounds *)

MaxRows == 1      \* total number of rows over all tables
MaxTime == 1      \* clock ticks
MaxIoFails == 1   \* failures of writeFileSync after initialization
MaxIdRows == 2    \* rows over all tables in the runs about row ids
MaxReadRows == 2  \* rows over all tables in the runs that read damaged rows
MaxPersonalRows == 2  \* rows of personal_info
MaxCalls == 2     \* tool calls that arrive in the runs with calls in flight

\* values randomBytes(16) yields for an id and for an IV
Ids == {1, 2}
IVs == {1}

(* Searchable texts *)
N1 == <<"J", "d">>
N2 == <<"d">>
Names  == {N1, N2}
Emails == {<<"j", "x">>, <<"x">>}
Queries == {<<"j">>, <<"d">>}

\* JSON null / SQL NULL where a searchable text is expected
NullText == <<"NULL">>

\* process.env with and without ENCRYPTION_KEY
SuppliedEnv == [ENCRYPTION_KEY |-> "k1"]
BareEnv == [x \in {} |-> 0]

\* randomBytes(32).toString('hex'), drawn once when config.ts is loaded
GeneratedKey == "r1"

\* config.encryptionKey, fixed for the process:
\* process.env.ENCRYPTION_KEY || randomBytes(32).toString('hex')
EncryptionKey ==
  IF "ENCRYPTION_KEY" \in DOMAIN env THEN env.ENCRYPTION_KEY
                                     ELSE GeneratedKey

----------------------------------------------------------------------------
(* Plain JavaScript helpers *)

\* obj.key !== undefined
Has(obj, k) == k \in DOMAIN obj

\* obj.k || dflt
OrElse(obj, k, dflt) == IF k \in DOMAIN obj THEN obj[k] ELSE dflt

\* { ...a, ...b }
Spread(a, b) ==
  [k \in DOMAIN a \cup DOMAIN b |-> IF k \in DOMAIN b THEN b[k] ELSE a[k]]

Stringify(v) == [json |-> v]
Parse(t) == t.json

\* JSON.parse returns rather than throwing a SyntaxError: the text is the
\* serialization of some value
ParseOk(t) == "json" \in DOMAIN t

----------------------------------------------------------------------------
(* Field cipher: SQLiteDB.encrypt / decrypt *)

\* faulty variant: the JSON text is stored without being encrypted
EncryptPlain(data, iv) ==
  [iv |-> iv,
   content |-> [alg |-> "none", key |-> "", pt |-> Stringify(data)]]

\* faulty variant: the ciphertext is made under another passphrase
EncryptOtherKey(data, iv) ==
  [iv |-> iv,
   content |-> [alg |-> "aes", key |-> "k2", pt |-> Stringify(data)]]

Encrypt(data, iv) ==
  [iv |-> iv,
   content |-> [alg |-> "aes", key |-> EncryptionKey, pt |-> Stringify(data)]]

\* nothing throws inside the try of decrypt.  The passphrase form of
\* CryptoJS.AES derives key and IV from the passphrase and the salt kept in
\* content, so the iv member is not looked at beyond being read as hex.
DecryptOk(encrypted) ==
  /\ Has(encrypted, "content")
  /\ encrypted.content.alg = "aes"
  /\ encrypted.content.key = EncryptionKey

Decrypt(encrypted) == Parse(encrypted.content.pt)

----------------------------------------------------------------------------
(* Authorization gate: AuthManager *)

AllScopes ==
  {"read:users", "write:users", "read:contacts", "write:contacts",
   "read:emails", "write:emails", "write:calendar", "write:oauth"}

\* A raw authorization string: whether it starts with "Bearer ", and the
\* JWT that follows (signature, expiry claim, scopes claim).
GoodToken(scopes) ==
  [bearer |-> TRUE, sig |-> "good", exp |-> MaxTime + 1,
   hasScopes |-> TRUE, scopes |-> scopes]

\* a string after "Bearer " that is no JWT at all
MalformedToken == [GoodToken(AllScopes) EXCEPT !.sig = "malformed"]

ReadOnlyScopes == {"read:users", "read:contacts", "read:emails"}

\* scopes that name no operation exactly: wildcards, a prefix of a scope,
\* another verb
WildcardScopes == {"write:*", "read:*", "*", "write:user", "admin:users"}

BadSigToken == [GoodToken(AllScopes) EXCEPT !.sig = "bad"]

\* every kind of authorization string
Tokens ==
  { GoodToken(AllScopes), GoodToken(ReadOnlyScopes),
    GoodToken({"write:users", "write:contacts", "write:emails"}),
    BadSigToken,
    [GoodToken(AllScopes) EXCEPT !.bearer = FALSE],
    [GoodToken(AllScopes) EXCEPT !.exp = 0],
    [GoodToken({}) EXCEPT !.hasScopes = FALSE],
    GoodToken(WildcardScopes) }

\* the one token of the runs that vary the store's inputs instead
StoreTokens == { GoodToken(AllScopes) }

\* The clock of the process counts ticks (Date.now()); jsonwebtoken counts
\* whole seconds, Math.floor(Date.now() / 1000), both when it signs and when
\* it verifies.  A second is TicksPerSecond ticks, and the hour of
\* expiresIn: '1h' is HourSeconds seconds.
TicksPerSecond == 2
HourSeconds == 2
Seconds(t) == t \div TicksPerSecond
Hour == HourSeconds * TicksPerSecond

\* faulty variant: the token is signed without an expiry
GenerateTokenNoExpiry(userId, scopes, t) ==
  [bearer |-> FALSE, sig |-> "good", exp |-> Seconds(t) + 1000 * HourSeconds,
   hasScopes |-> TRUE, scopes |-> scopes]

\* AuthManager.generateToken at time t: the bare JWT (no "Bearer " prefix),
\* signed with JWT_SECRET, exp = iat + 1h
GenerateToken(userId, scopes, t) ==
  [bearer |-> FALSE, sig |-> "good", exp |-> Seconds(t) + HourSeconds,
   hasScopes |-> TRUE, scopes |-> scopes]

\* the authorization string a caller builds from a JWT: "Bearer " + jwt
WithBearer(token) == [token EXCEPT !.bearer = TRUE]

\* jwt.verify(tokenString, JWT_SECRET): signature, then expiry
\* (clockTimestamp >= payload.exp is "jwt expired")
JwtVerifies(token, t) == token.sig = "good" /\ Seconds(t) < token.exp

\* faulty variant: the "Bearer " prefix is not required
VerifyTokenNoPrefix(token, t) ==
  IF ~JwtVerifies(token, t)
    THEN [ok |-> FALSE, errType |-> "AuthorizationError", code |-> "INVALID_TOKEN"]
    ELSE [ok |-> TRUE, errType |-> "none", code |-> "none"]

\* AuthManager.verifyToken: claims, or AuthorizationError INVALID_TOKEN
VerifyToken(token, t) ==
  IF ~token.bearer
    THEN [ok |-> FALSE, errType |-> "AuthorizationError", code |-> "INVALID_TOKEN"]
  ELSE IF ~JwtVerifies(token, t)
    THEN [ok |-> FALSE, errType |-> "AuthorizationError", code |-> "INVALID_TOKEN"]
  ELSE [ok |-> TRUE, errType |-> "none", code |-> "none"]

\* faulty variant: a wildcard scope grants every scope
ValidateScopeWildcard(token, requiredScope) ==
  IF ~token.hasScopes THEN FALSE
  ELSE requiredScope \in token.scopes \/ "*" \in token.scopes

\* AuthManager.validateScope on the claims of a verified token
ValidateScope(token, requiredScope) ==
  IF ~token.hasScopes THEN FALSE ELSE requiredScope \in token.scopes

\* faulty variant: the scope is not checked
ValidateAuthNoScope(token, requiredScope, t) == VerifyToken(token, t)

\* faulty variant: the catch of validateAuth rewraps every error
ValidateAuthRewrapped(token, requiredScope, t) ==
  LET v == VerifyToken(token, t) IN
  IF v.ok /\ ValidateScope(token, requiredScope) THEN v
  ELSE [ok |-> FALSE, errType |-> "AuthorizationError",
        code |-> "INVALID_AUTH"]

\* server.ts validateAuth: returns, or throws an AuthorizationError
ValidateAuth(token, requiredScope, t) ==
  LET v == VerifyToken(token, t) IN
  IF ~v.ok THEN v
  ELSE IF ~ValidateScope(token, requiredScope)
    THEN [ok |-> FALSE, errType |-> "AuthorizationError",
          code |-> "INSUFFICIENT_SCOPE"]
  ELSE v

----------------------------------------------------------------------------
(* sql.js *)

EmptyDB ==
  [users |-> <<>>, contacts |-> <<>>, emails |-> <<>>,
   calendar_items |-> <<>>, oauth_tokens |-> <<>>]

Tables == DOMAIN EmptyDB

Range(seq) == { seq[i] : i \in DOMAIN seq }

TotalRows(d) ==
  Len(d.users) + Len(d.contacts) + Len(d.emails)
    + Len(d.calendar_items) + Len(d.oauth_tokens)

RowIds(d, table) == { r.id : r \in Range(d[table]) }

\* Statement.bindValue: strings, numbers and null bind; undefined throws
\* "Wrong API use : tried to bind a value of an unknown type", so
\* stmt.run([..., obj.k, ...]) throws when a key k is absent from obj
BindThrows(obj, keys) == \E k \in keys : ~Has(obj, k)

\* COALESCE(?, column)
Coalesce(value, column) == IF value = NullText THEN column ELSE value

\* faulty variant: the id column is not a PRIMARY KEY
InsertViolatesEmailOnly(d, table, row) ==
  table = "users" /\ \E r \in Range(d.users) : r.email = row.email

\* INSERT: PRIMARY KEY on id, and UNIQUE on users.email
InsertViolates(d, table, row) ==
  \/ row.id \in RowIds(d, table)
  \/ table = "users" /\ \E r \in Range(d.users) : r.email = row.email

Insert(d, table, row) == [d EXCEPT ![table] = Append(@, row)]

Lower(c) == IF c = "J" THEN "j" ELSE IF c = "D" THEN "d"
            ELSE IF c = "X" THEN "x" ELSE c

\* text LIKE pattern (SQLite: % any run, _ any character, ASCII case folded)
RECURSIVE Like(_, _)
Like(text, pattern) ==
  IF pattern = <<>> THEN text = <<>>
  ELSE IF Head(pattern) = "%"
    THEN Like(text, Tail(pattern))
           \/ (text # <<>> /\ Like(Tail(text), pattern))
  ELSE /\ text # <<>>
       /\ (Head(pattern) = "_" \/ Lower(Head(pattern)) = Lower(Head(text)))
       /\ Like(Tail(text), Tail(pattern))

\* db.prepare(sql): a statement whose ? parameters are all unbound
Prepare(sql) == [conds |-> sql, bound |-> <<>>]

\* one AND-ed condition of a WHERE clause on a row; an unbound parameter is
\* NULL, and a comparison with NULL is never true
CondHolds(stmt, cond, row) ==
  IF cond.op = "="
    THEN /\ cond.p <= Len(stmt.bound)
         /\ row[cond.cols[1]] = stmt.bound[cond.p]
    ELSE \E j \in DOMAIN cond.cols :
            /\ cond.p + j - 1 <= Len(stmt.bound)
            /\ Like(row[cond.cols[j]], stmt.bound[cond.p + j - 1])

\* while (stmt.step()) rows.push(stmt.getAsObject())
StepAll(stmt, rows) ==
  SelectSeq(rows, LAMBDA r : \A i \in DOMAIN stmt.conds :
                                CondHolds(stmt, stmt.conds[i], r))

----------------------------------------------------------------------------
(* Entity store: SQLiteDB.  Every method returns the database and file it  *)
(* leaves behind and what the caller gets: a value, or a thrown error.     *)

NoValue == "none"

Returned(d, f, value) ==
  [db |-> d, file |-> f, status |-> "ok", errType |-> "none",
   code |-> "none", value |-> value, ioFailed |-> FALSE]

Thrown(d, f, errType, code) ==
  [db |-> d, file |-> f, status |-> "error", errType |-> errType,
   code |-> code, value |-> NoValue, ioFailed |-> FALSE]

\* the error leaving a method whose saveDatabase threw in writeFileSync
ThrownBySave(d, f, errType, code) ==
  [Thrown(d, f, errType, code) EXCEPT !.ioFailed = TRUE]

\* faulty variant: a rejected initialization is not rethrown
AwaitInitializedUnchecked(body) == body

\* await this.initialized: a rejected initialization rethrows its
\* PersonalContextError DB_ERROR in every method, before the method body
AwaitInitialized(body) ==
  IF initialized = "rejected"
    THEN Thrown(db, file, "PersonalContextError", "DB_ERROR")
    ELSE body

\* The common shape of the five add methods: stmt.run, saveDatabase and the
\* return are inside one try whose catch throws DB_ERROR.  ioFail: the
\* writeFileSync of saveDatabase throws.
\* faulty variant: the DTO is returned although the export failed
AddRowUnflushed(table, row, dto, ioFail) ==
  IF InsertViolates(db, table, row)
    THEN Thrown(db, file, "PersonalContextError", "DB_ERROR")
    ELSE LET d2 == Insert(db, table, row) IN
         Returned(d2, IF ioFail THEN file ELSE d2, dto)

AddRow(table, row, dto, ioFail) ==
  IF InsertViolates(db, table, row)
    THEN Thrown(db, file, "PersonalContextError", "DB_ERROR")
  ELSE LET d2 == Insert(db, table, row) IN
       IF ioFail
         THEN ThrownBySave(d2, file, "PersonalContextError", "DB_ERROR")
         ELSE Returned(d2, d2, dto)

AddUser(input, id, iv, ioFail) ==
  LET preferences == OrElse(input, "preferences", <<"{}">>)
      row == [id |-> id, email |-> input.email, name |-> input.name,
              encrypted_preferences |-> Stringify(Encrypt(preferences, iv)),
              created_at |-> now, updated_at |-> now]
      dto == [id |-> id, email |-> input.email, name |-> input.name,
              preferences |-> preferences,
              createdAt |-> now, updatedAt |-> now]
  IN AwaitInitialized(AddRow("users", row, dto, ioFail))

ContactBundle(input) ==
  [emails |-> OrElse(input, "emails", <<"[]">>),
   phoneNumbers |-> OrElse(input, "phoneNumbers", <<"[]">>),
   addresses |-> OrElse(input, "addresses", <<"[]">>),
   relationships |-> OrElse(input, "relationships", <<"[]">>),
   metadata |-> OrElse(input, "metadata", <<"{}">>)]

AddContact(input, id, iv, ioFail) ==
  LET row == [id |-> id, user_id |-> input.userId,
              first_name |-> input.firstName, last_name |-> input.lastName,
              encrypted_data |-> Stringify(Encrypt(ContactBundle(input), iv)),
              created_at |-> now, updated_at |-> now]
      dto == Spread([id |-> id, firstName |-> input.firstName,
                     lastName |-> input.lastName,
                     createdAt |-> now, updatedAt |-> now],
                    ContactBundle(input))
  IN AwaitInitialized(AddRow("contacts", row, dto, ioFail))

AddEmail(input, id, iv, iv2, ioFail) ==
  LET attachments == OrElse(input, "attachments", <<"[]">>)
      labels == OrElse(input, "labels", <<"[]">>)
      row == [id |-> id, user_id |-> input.userId, subject |-> input.subject,
              encrypted_body |-> Stringify(Encrypt(input.body, iv)),
              sender |-> input.sender,
              recipients |-> Stringify(input.recipients),
              thread_id |-> OrElse(input, "threadId", <<"null">>),
              labels |-> Stringify(labels),
              encrypted_attachments |-> Stringify(Encrypt(attachments, iv2)),
              created_at |-> now, updated_at |-> now]
      dto == [id |-> id, subject |-> input.subject, body |-> input.body,
              sender |-> input.sender, recipients |-> input.recipients,
              timestamp |-> now,
              threadId |-> OrElse(input, "threadId", <<"undefined">>),
              labels |-> labels, attachments |-> attachments,
              createdAt |-> now, updatedAt |-> now]
  IN AwaitInitialized(AddRow("emails", row, dto, ioFail))

AddCalendarItem(input, id, iv, iv2, ioFail) ==
  LET metadata == OrElse(input, "metadata", <<"{}">>)
      row == [id |-> id, user_id |-> input.userId, title |-> input.title,
              encrypted_description |->
                Stringify(Encrypt(input.description, iv)),
              start_time |-> input.startTime, end_time |-> input.endTime,
              location |-> OrElse(input, "location", <<"null">>),
              attendees |-> Stringify(input.attendees),
              recurrence |-> OrElse(input, "recurrence", <<"null">>),
              encrypted_metadata |-> Stringify(Encrypt(metadata, iv2)),
              created_at |-> now, updated_at |-> now]
      dto == [id |-> id, title |-> input.title,
              description |-> input.description,
              startTime |-> input.startTime, endTime |-> input.endTime,
              location |-> OrElse(input, "location", <<"undefined">>),
              attendees |-> input.attendees,
              recurrence |-> OrElse(input, "recurrence", <<"undefined">>),
              metadata |-> metadata,
              createdAt |-> now, updatedAt |-> now]
  IN AwaitInitialized(AddRow("calendar_items", row, dto, ioFail))

AddOAuthToken(input, id, iv, ioFail) ==
  LET metadata == OrElse(input, "metadata", <<"{}">>)
      tokens == [accessToken |-> input.accessToken,
                 refreshToken |-> input.refreshToken,
                 metadata |-> metadata]
      row == [id |-> id, user_id |-> input.userId, provider |-> input.provider,
              encrypted_tokens |-> Stringify(Encrypt(tokens, iv)),
              scopes |-> Stringify(input.scopes),
              expires_at |-> input.expiresAt,
              created_at |-> now, updated_at |-> now]
      dto == [id |-> id, userId |-> input.userId, provider |-> input.provider,
              accessToken |-> input.accessToken,
              refreshToken |-> input.refreshToken,
              scopes |-> input.scopes, expiresAt |-> input.expiresAt,
              metadata |-> metadata,
              createdAt |-> now, updatedAt |-> now]
  IN AwaitInitialized(AddRow("oauth_tokens", row, dto, ioFail))

----------------------------------------------------------------------------
(* Generic get and update *)

TableOf(type) == IF type = "user" THEN "users" ELSE "contacts"

\* SQLiteDB.mapRowToEntity (reached only for user and contact)
MapRowToEntity(type, row) ==
  IF type = "user"
    THEN [id |-> row.id, email |-> row.email, name |-> row.name,
          preferences |-> Decrypt(Parse(row.encrypted_preferences)),
          createdAt |-> row.created_at, updatedAt |-> row.updated_at]
    ELSE Spread(Spread([id |-> row.id, firstName |-> row.first_name,
                        lastName |-> row.last_name],
                       Decrypt(Parse(row.encrypted_data))),
                [createdAt |-> row.created_at, updatedAt |-> row.updated_at])

\* the column text mapRowToEntity hands to JSON.parse
EnvelopeText(type, row) ==
  IF type = "user" THEN row.encrypted_preferences ELSE row.encrypted_data

RowParses(type, row) == ParseOk(EnvelopeText(type, row))

RowDecrypts(type, row) ==
  IF type = "user" THEN DecryptOk(Parse(row.encrypted_preferences))
                   ELSE DecryptOk(Parse(row.encrypted_data))

\* rows.map(row => this.mapRowToEntity(type, row)): the first row that
\* cannot be read ends the call, with the SyntaxError of JSON.parse (which
\* is outside the try of decrypt) or with the DECRYPT_ERROR of decrypt
MapRows(d, f, type, rows) ==
  LET bad == { i \in DOMAIN rows :
                 ~(RowParses(type, rows[i]) /\ RowDecrypts(type, rows[i])) }
      first == CHOOSE i \in bad : \A j \in bad : i <= j
  IN IF bad = {}
       THEN Returned(d, f, [i \in DOMAIN rows |->
                              MapRowToEntity(type, rows[i])])
     ELSE IF ~RowParses(type, rows[first])
       THEN Thrown(d, f, "SyntaxError", "none")
     ELSE Thrown(d, f, "PersonalContextError", "DECRYPT_ERROR")

\* if (query.query): an empty string is falsy.  Ids are non-empty.
HasText(query) == Has(query, "query") /\ query.query # <<>>

\* the WHERE clause getEntity concatenates, and the params it collects
GetEntitySql(type, query) ==
  LET idC == IF Has(query, "id")
               THEN <<[op |-> "=", cols |-> <<"id">>, p |-> 1]>> ELSE <<>>
      userC == IF type = "contact" /\ Has(query, "userId")
                 THEN <<[op |-> "=", cols |-> <<"user_id">>,
                         p |-> Len(idC) + 1]>>
                 ELSE <<>>
      likeC == IF HasText(query)
                 THEN <<[op |-> "LIKE",
                         cols |-> IF type = "user" THEN <<"email", "name">>
                                  ELSE <<"first_name", "last_name">>,
                         p |-> Len(idC) + Len(userC) + 1]>>
                 ELSE <<>>
  IN idC \o userC \o likeC

GetEntityParams(type, query) ==
  LET pattern == <<"%">> \o query.query \o <<"%">> IN
  (IF Has(query, "id") THEN <<query.id>> ELSE <<>>)
    \o (IF type = "contact" /\ Has(query, "userId")
          THEN <<query.userId>> ELSE <<>>)
    \o (IF HasText(query) THEN <<pattern, pattern>> ELSE <<>>)

\* SQLiteDB.getEntity on database d after initialization has settled: the
\* statement is prepared from sql alone; params is never handed to sql.js
GetEntityOn(d, f, type, query) ==
  IF type \notin {"user", "contact"}
    THEN Thrown(d, f, "PersonalContextError", "INVALID_TYPE")
  ELSE LET stmt == Prepare(GetEntitySql(type, query))
           rows == StepAll(stmt, d[TableOf(type)])
       IN MapRows(d, f, type, rows)

GetEntity(type, query) == AwaitInitialized(GetEntityOn(db, file, type, query))

UpdateUserRow(row, data, iv) ==
  [row EXCEPT
     !.name = Coalesce(data.name, @),
     !.encrypted_preferences =
        Stringify(Encrypt(OrElse(data, "preferences", <<"{}">>), iv)),
     !.updated_at = now]

\* faulty variant: the update stamps created_at as well
UpdateContactRowRestamped(row, data, iv) ==
  [row EXCEPT
     !.first_name = Coalesce(data.firstName, @),
     !.last_name = Coalesce(data.lastName, @),
     !.encrypted_data = Stringify(Encrypt(data, iv)),
     !.created_at = now,
     !.updated_at = now]

UpdateContactRow(row, data, iv) ==
  [row EXCEPT
     !.first_name = Coalesce(data.firstName, @),
     !.last_name = Coalesce(data.lastName, @),
     !.encrypted_data = Stringify(Encrypt(data, iv)),
     !.updated_at = now]

\* UPDATE users SET ... WHERE id = ?
UpdateUsers(d, id, data, iv) ==
  [d EXCEPT !.users =
     [i \in DOMAIN @ |-> IF @[i].id = id THEN UpdateUserRow(@[i], data, iv)
                                         ELSE @[i]]]

\* UPDATE contacts SET ... WHERE id = ?
UpdateContacts(d, id, data, iv) ==
  [d EXCEPT !.contacts =
     [i \in DOMAIN @ |-> IF @[i].id = id
                           THEN UpdateContactRow(@[i], data, iv)
                           ELSE @[i]]]

\* SQLiteDB.updateEntity.  Nothing catches inside it: a bind error or a
\* writeFileSync error leaves the method as the raw exception.
\* The switch of updateEntity: stmt.run and saveDatabase, up to the break
UpdateEntityWrite(type, input, iv, ioFail) ==
  IF type \notin {"user", "contact"}
    THEN Thrown(db, file, "PersonalContextError", "INVALID_TYPE")
  ELSE IF BindThrows(input.data, IF type = "user" THEN {"name"}
                                 ELSE {"firstName", "lastName"})
    THEN Thrown(db, file, "other", "none")
  ELSE LET d2 == IF type = "user"
                   THEN UpdateUsers(db, input.id, input.data, iv)
                   ELSE UpdateContacts(db, input.id, input.data, iv)
       IN IF ioFail THEN ThrownBySave(d2, file, "other", "none")
          ELSE Returned(d2, d2, NoValue)

\* ... followed by return this.getEntity(type, { id: input.id }), when no
\* other call runs in between
UpdateEntityBody(type, input, iv, ioFail) ==
  LET written == UpdateEntityWrite(type, input, iv, ioFail) IN
  IF written.status = "error" THEN written
  ELSE GetEntityOn(written.db, written.file, type, [id |-> input.id])

UpdateEntity(type, input, iv, ioFail) ==
  AwaitInitialized(UpdateEntityBody(type, input, iv, ioFail))

----------------------------------------------------------------------------
(* Inputs of the tool calls *)

UserInputs ==
  { [email |-> <<"j", "x">>, name |-> N1],
    [email |-> <<"x">>, name |-> N2, preferences |-> <<"p1">>] }

ContactInputs ==
  { [userId |-> 1, firstName |-> N1, lastName |-> N2],
    [userId |-> 2, firstName |-> N2, lastName |-> N2,
     emails |-> <<"e1">>, phoneNumbers |-> <<"ph1">>] }

EmailInputs ==
  { [userId |-> 1, subject |-> N1, body |-> <<"b1">>, sender |-> N2,
     recipients |-> <<"r1">>, attachments |-> <<"a1">>] }

CalendarInputs ==
  { [userId |-> 1, title |-> N1, description |-> <<"d1">>, startTime |-> <<"t1">>,
     endTime |-> <<"t2">>, attendees |-> <<"r1">>, location |-> <<"l1">>] }

OAuthInputs ==
  { [userId |-> 1, provider |-> N1, accessToken |-> <<"at1">>,
     refreshToken |-> <<"rt1">>, scopes |-> <<"sc1">>, expiresAt |-> <<"t2">>] }

\* the data of update-entity: any object
UserData ==
  { [name |-> N2, preferences |-> <<"p2">>], [preferences |-> <<"p2">>],
    [name |-> N1] }

ContactData ==
  { [firstName |-> NullText, lastName |-> N1, emails |-> <<"e2">>],
    [lastName |-> N1] }

OtherData == { [subject |-> N2] }

UpdateInputs(type) ==
  { [id |-> i, data |-> d] :
      i \in Ids, d \in IF type = "user" THEN UserData
                       ELSE IF type = "contact" THEN ContactData
                       ELSE OtherData }

GetQueries ==
  { [x \in {} |-> 0], [id |-> 1], [userId |-> 1, query |-> <<"d">>] }

\* one input of each kind, for the runs that vary the token instead
FewUserInputs == { [email |-> <<"x">>, name |-> N2] }
FewContactInputs == { [userId |-> 1, firstName |-> N1, lastName |-> N2] }
FewUpdateInputs(type) ==
  { [id |-> i, data |-> IF type = "user" THEN [name |-> N1]
                        ELSE [firstName |-> N2, lastName |-> N2]] :
      i \in Ids }
FewQueries == { [x \in {} |-> 0] }

\* the type tags a caller sends to update-entity and get-entity
Types == {"user", "contact", "email"}
FewTypes == {"user", "contact"}

\* the update-entity inputs a caller may send with each type tag
UpdateInputsByType == [t \in Types |-> UpdateInputs(t)]
FewUpdateInputsByType == [t \in FewTypes |-> FewUpdateInputs(t)]

----------------------------------------------------------------------------
(* Tool dispatcher: the CallToolRequestSchema handler of server.ts *)

AddTools ==
  {"add-user", "add-contact", "add-email", "add-calendar-item",
   "add-oauth-token"}

\* the scope each case hands to validateAuth
RequiredScope(tool, type) ==
  CASE tool = "add-user" -> "write:users"
    [] tool = "add-contact" -> "write:contacts"
    [] tool = "add-email" -> "write:emails"
    [] tool = "add-calendar-item" -> "write:calendar"
    [] tool = "add-oauth-token" -> "write:oauth"
    [] tool = "update-entity" -> "write:" \o type \o "s"
    [] tool = "get-entity" -> "read:" \o type \o "s"

NoArgs == [x \in {} |-> 0]

NoCall ==
  [tool |-> "none", type |-> "none", shapeOk |-> FALSE,
   token |-> GoodToken({}), args |-> NoArgs, called |-> FALSE,
   status |-> "none", errType |-> "none", code |-> "none",
   value |-> NoValue, response |-> "none"]

\* the text response built from what the case returned or the catch caught
Response(status, errType) ==
  IF status = "ok" THEN "success"
  ELSE IF errType = "AuthorizationError" THEN "authorization_error"
  ELSE IF errType = "PersonalContextError" THEN "operation_failed"
  ELSE "unexpected_error"

\* One case of the switch: type guard, validateAuth, then the store method.
\* A call stopped by the type guard or by validateAuth:
DispatchRejected(tool, type, shapeOk, token) ==
  LET auth == ValidateAuth(token, RequiredScope(tool, type), now)
      head == [tool |-> tool, type |-> type, shapeOk |-> shapeOk,
               token |-> token, args |-> NoArgs, called |-> FALSE,
               status |-> "error", value |-> NoValue]
  IN
  /\ ~shapeOk \/ ~auth.ok
  /\ res' = IF ~shapeOk
              THEN head @@ [errType |-> "none", code |-> "none",
                            response |-> "invalid_input"]
              ELSE head @@ [errType |-> auth.errType, code |-> auth.code,
                            response |-> Response("error", auth.errType)]
  /\ UNCHANGED <<db, file, ioFails>>

\* A call that passed both: call is the outcome of the store method, cap the
\* number of rows the run lets the store hold.
DispatchCall(tool, type, token, args, call, cap) ==
  /\ ValidateAuth(token, RequiredScope(tool, type), now).ok
  /\ res' = [tool |-> tool, type |-> type, shapeOk |-> TRUE,
             token |-> token, args |-> args, called |-> TRUE,
             status |-> call.status, errType |-> call.errType,
             code |-> call.code, value |-> call.value,
             response |-> Response(call.status, call.errType)]
  /\ TotalRows(call.db) <= cap
  /\ db' = call.db
  /\ file' = call.file
  /\ ioFails' = IF call.ioFailed THEN ioFails + 1 ELSE ioFails

----------------------------------------------------------------------------
(* Actions *)

\* the process has just started with ENCRYPTION_KEY set: no call is in
\* flight, nothing has run, and the PersonalContextDB table is empty
Running == [exited |-> FALSE, by |-> "none", closed |-> 0]

NoResult ==
  [method |-> "none", args |-> NoArgs, status |-> "none", code |-> "none",
   value |-> NoValue]

Started(environment) ==
  /\ env = environment
  /\ proc = Running
  /\ inflight = <<>>
  /\ log = <<>>
  /\ pdb = <<>>
  /\ pres = NoResult

\* a database file left at dbPath by an earlier run of the server
OldFile ==
  [EmptyDB EXCEPT !.users =
     <<[id |-> 1, email |-> <<"x">>, name |-> N2,
        encrypted_preferences |-> Stringify(Encrypt(<<"p1">>, 1)),
        created_at |-> 0, updated_at |-> 0]>>]

\* SQLiteDB.initializeDatabase, started by the constructor: a new empty
\* database gets the schema and is exported over the file at dbPath; any
\* failure (initSqlJs, mkdirSync, writeFileSync) rejects this.initialized
InitializeDatabase ==
  /\ initialized = "pending"
  /\ ~proc.exited
  /\ \/ /\ initialized' = "resolved"
        /\ db' = EmptyDB
        /\ file' = EmptyDB
     \/ /\ initialized' = "rejected"
        /\ UNCHANGED <<db, file>>
  /\ res' = NoCall
  /\ UNCHANGED <<now, ioFails, env, proc, inflight, log, pdb, pres>>

\* time passes
Tick ==
  /\ now < MaxTime
  /\ now' = now + 1
  /\ res' = NoCall
  /\ UNCHANGED <<initialized, db, file, ioFails, env, proc, inflight, log,
                 pdb, pres>>

\* whether the next writeFileSync may throw
MayFail == IF ioFails < MaxIoFails THEN BOOLEAN ELSE {FALSE}

\* A tool call runs its store method once initialization has settled (every
\* method starts with await this.initialized); from there to its return the
\* method is synchronous.  The parameters are the sets the call's token, the
\* verdict of its type guard, its arguments, the id drawn by randomBytes and
\* the fate of writeFileSync are taken from.
CallAddUser(tokens, shapes, inputs, ids, fails, cap) ==
  /\ initialized # "pending"
  /\ \E token \in tokens :
       \/ \E shapeOk \in shapes :
            DispatchRejected("add-user", "user", shapeOk, token)
       \/ \E input \in inputs, id \in ids, iv \in IVs, ioFail \in fails :
            /\ TRUE \in shapes
            /\ DispatchCall("add-user", "user", token, input,
                            AddUser(input, id, iv, ioFail), cap)
  /\ UNCHANGED <<initialized, now, env, proc, inflight, log, pdb, pres>>

CallAddContact(tokens, shapes, inputs, ids, fails, cap) ==
  /\ initialized # "pending"
  /\ \E token \in tokens :
       \/ \E shapeOk \in shapes :
            DispatchRejected("add-contact", "contact", shapeOk, token)
       \/ \E input \in inputs, id \in ids, iv \in IVs, ioFail \in fails :
            /\ TRUE \in shapes
            /\ DispatchCall("add-contact", "contact", token, input,
                            AddContact(input, id, iv, ioFail), cap)
  /\ UNCHANGED <<initialized, now, env, proc, inflight, log, pdb, pres>>

CallAddEmail(tokens, shapes, inputs, ids, fails, cap) ==
  /\ initialized # "pending"
  /\ \E token \in tokens :
       \/ \E shapeOk \in shapes :
            DispatchRejected("add-email", "email", shapeOk, token)
       \/ \E input \in inputs, id \in ids, iv \in IVs, iv2 \in IVs, ioFail \in fails :
            /\ TRUE \in shapes
            /\ DispatchCall("add-email", "email", token, input,
                            AddEmail(input, id, iv, iv2, ioFail), cap)
  /\ UNCHANGED <<initialized, now, env, proc, inflight, log, pdb, pres>>

CallAddCalendarItem(tokens, shapes, inputs, ids, fails, cap) ==
  /\ initialized # "pending"
  /\ \E token \in tokens :
       \/ \E shapeOk \in shapes :
            DispatchRejected("add-calendar-item", "calendar-item", shapeOk, token)
       \/ \E input \in inputs, id \in ids, iv \in IVs, iv2 \in IVs, ioFail \in fails :
            /\ TRUE \in shapes
            /\ DispatchCall("add-calendar-item", "calendar-item", token, input,
                            AddCalendarItem(input, id, iv, iv2, ioFail), cap)
  /\ UNCHANGED <<initialized, now, env, proc, inflight, log, pdb, pres>>

CallAddOAuthToken(tokens, shapes, inputs, ids, fails, cap) ==
  /\ initialized # "pending"
  /\ \E token \in tokens :
       \/ \E shapeOk \in shapes :
            DispatchRejected("add-oauth-token", "oauth-token", shapeOk, token)
       \/ \E input \in inputs, id \in ids, iv \in IVs, ioFail \in fails :
            /\ TRUE \in shapes
            /\ DispatchCall("add-oauth-token", "oauth-token", token, input,
                            AddOAuthToken(input, id, iv, ioFail), cap)
  /\ UNCHANGED <<initialized, now, env, proc, inflight, log, pdb, pres>>

CallUpdateEntity(tokens, shapes, types, inputs, fails, cap) ==
  /\ initialized # "pending"
  /\ \E token \in tokens, type \in types :
       \/ \E shapeOk \in shapes :
            DispatchRejected("update-entity", type, shapeOk, token)
       \/ \E input \in inputs[type], iv \in IVs, ioFail \in fails :
            /\ TRUE \in shapes
            /\ DispatchCall("update-entity", type, token, input,
                            UpdateEntity(type, input, iv, ioFail), cap)
  /\ UNCHANGED <<initialized, now, env, proc, inflight, log, pdb, pres>>

CallGetEntity(tokens, shapes, types, queries, cap) ==
  /\ initialized # "pending"
  /\ \E token \in tokens, type \in types :
       \/ \E shapeOk \in shapes :
            DispatchRejected("get-entity", type, shapeOk, token)
       \/ \E query \in queries :
            /\ TRUE \in shapes
            /\ DispatchCall("get-entity", type, token, query,
                            GetEntity(type, query), cap)
  /\ UNCHANGED <<initialized, now, env, proc, inflight, log, pdb, pres>>

Init ==
  /\ Started(SuppliedEnv)
  /\ initialized = "pending"
  /\ db = EmptyDB
  /\ file \in {EmptyDB, OldFile}
  /\ now = 0
  /\ ioFails = 0
  /\ res = NoCall

\* The store under every input: well-formed calls with a token that passes
\* every check, at one instant.
Next ==
  \/ InitializeDatabase
  \/ CallAddUser(StoreTokens, {TRUE}, UserInputs, Ids, MayFail, MaxRows)
  \/ CallAddContact(StoreTokens, {TRUE}, ContactInputs, Ids, MayFail, MaxRows)
  \/ CallAddEmail(StoreTokens, {TRUE}, EmailInputs, Ids, MayFail, MaxRows)
  \/ CallAddCalendarItem(StoreTokens, {TRUE}, CalendarInputs, Ids, MayFail, MaxRows)
  \/ CallAddOAuthToken(StoreTokens, {TRUE}, OAuthInputs, Ids, MayFail, MaxRows)
  \/ CallUpdateEntity(StoreTokens, {TRUE}, Types,
                      UpdateInputsByType, MayFail, MaxRows)
  \/ CallGetEntity(StoreTokens, {TRUE}, Types, GetQueries, MaxRows)

Spec == Init /\ [][Next]_vars

\* The dispatcher under every kind of token and both verdicts of the type
\* guards, at one instant, with one input per tool.
NextAuth ==
  \/ InitializeDatabase
  \/ CallAddUser(Tokens, BOOLEAN, FewUserInputs, {1}, {FALSE}, MaxRows)
  \/ CallAddContact(Tokens, BOOLEAN, FewContactInputs, {1}, {FALSE}, MaxRows)
  \/ CallAddEmail(Tokens, BOOLEAN, EmailInputs, {1}, {FALSE}, MaxRows)
  \/ CallAddCalendarItem(Tokens, BOOLEAN, CalendarInputs, {1}, {FALSE}, MaxRows)
  \/ CallAddOAuthToken(Tokens, BOOLEAN, OAuthInputs, {1}, {FALSE}, MaxRows)
  \/ CallUpdateEntity(Tokens, BOOLEAN, FewTypes,
                      FewUpdateInputsByType, {FALSE}, MaxRows)
  \/ CallGetEntity(Tokens, BOOLEAN, FewTypes, FewQueries, MaxRows)

SpecAuth == Init /\ [][NextAuth]_vars

\* The store while time passes, with one input per tool.
NextTime ==
  \/ InitializeDatabase
  \/ Tick
  \/ CallAddUser(StoreTokens, {TRUE}, FewUserInputs, Ids, MayFail, MaxRows)
  \/ CallAddContact(StoreTokens, {TRUE}, FewContactInputs, Ids, MayFail, MaxRows)
  \/ CallAddEmail(StoreTokens, {TRUE}, EmailInputs, {1}, MayFail, MaxRows)
  \/ CallAddCalendarItem(StoreTokens, {TRUE}, CalendarInputs, {1}, MayFail, MaxRows)
  \/ CallAddOAuthToken(StoreTokens, {TRUE}, OAuthInputs, {1}, MayFail, MaxRows)
  \/ CallUpdateEntity(StoreTokens, {TRUE}, FewTypes,
                      FewUpdateInputsByType, MayFail, MaxRows)

SpecTime == Init /\ [][NextTime]_vars

\* The store holding several rows, with few inputs per tool and every draw of
\* the row id.
NextIds ==
  \/ InitializeDatabase
  \/ CallAddUser(StoreTokens, {TRUE}, UserInputs, Ids, MayFail, MaxIdRows)
  \/ CallAddContact(StoreTokens, {TRUE}, FewContactInputs, Ids, MayFail,
                    MaxIdRows)
  \/ CallAddEmail(StoreTokens, {TRUE}, EmailInputs, Ids, MayFail, MaxIdRows)
  \/ CallAddCalendarItem(StoreTokens, {TRUE}, CalendarInputs, Ids, MayFail,
                         MaxIdRows)
  \/ CallAddOAuthToken(StoreTokens, {TRUE}, OAuthInputs, Ids, MayFail,
                       MaxIdRows)
  \/ CallUpdateEntity(StoreTokens, {TRUE}, FewTypes,
                      FewUpdateInputsByType, MayFail,
                      MaxIdRows)

SpecIds == Init /\ [][NextIds]_vars

\* The instants at which the token script (generateToken) has run, and the
\* later instants at which the server may be observed: up to more than an
\* hour after the last issue.
IssueTimes == 0 .. TicksPerSecond
ClockTimes == TicksPerSecond .. (Hour + 2 * TicksPerSecond)
IssuedScopes == { AllScopes, ReadOnlyScopes }

\* the JWTs issued
IssuedTokens ==
  { GenerateToken("u", scopes, t0) :
      scopes \in IssuedScopes, t0 \in IssueTimes }

\* the authorization strings callers present: an issued JWT with or without
\* the prefix, or something that is no JWT
PresentedTokens ==
  { WithBearer(tok) : tok \in IssuedTokens } \cup IssuedTokens
    \cup { MalformedToken }

\* the server observed at any instant of ClockTimes
InitToken ==
  /\ Started(SuppliedEnv)
  /\ initialized = "pending"
  /\ db = EmptyDB
  /\ file = EmptyDB
  /\ now \in ClockTimes
  /\ ioFails = 0
  /\ res = NoCall

NextToken ==
  \/ InitializeDatabase
  \/ CallAddUser(PresentedTokens, {TRUE}, FewUserInputs, {1}, {FALSE},
                 MaxRows)
  \/ CallUpdateEntity(PresentedTokens, {TRUE}, FewTypes,
                      FewUpdateInputsByType, {FALSE},
                      MaxRows)
  \/ CallGetEntity(PresentedTokens, {TRUE}, FewTypes, FewQueries,
                   MaxRows)

SpecToken == InitToken /\ [][NextToken]_vars

\* Reading rows however they stand in the tables.  mapRowToEntity is applied
\* to whatever text the encrypted column holds: the texts below are the one
\* encrypt writes and the ways it can be damaged at rest.
ColumnTexts(v) ==
  { Stringify(Encrypt(v, 1)),
    [raw |-> "{"],
    Stringify(NoArgs),
    Stringify([Encrypt(v, 1) EXCEPT !.iv = 0]),
    Stringify([iv |-> 1,
               content |-> [alg |-> "aes", key |-> "k0",
                            pt |-> Stringify(v)]]),
    Stringify([iv |-> 1, content |-> [alg |-> "garbage"]]) }

StoredUsers ==
  { <<>> } \cup
  { <<[id |-> 1, email |-> <<"x">>, name |-> N2,
       encrypted_preferences |-> text,
       created_at |-> 0, updated_at |-> 0]>> :
      text \in ColumnTexts(<<"p1">>) }

StoredContacts ==
  { <<>> } \cup
  { <<[id |-> 1, user_id |-> 1, first_name |-> N1, last_name |-> N2,
       encrypted_data |-> text,
       created_at |-> 0, updated_at |-> 0]>> :
      text \in ColumnTexts([emails |-> <<"e1">>]) }

InitRead ==
  /\ Started(SuppliedEnv)
  /\ initialized = "resolved"
  /\ \E users \in StoredUsers : \E contacts \in StoredContacts :
       db = [EmptyDB EXCEPT !.users = users, !.contacts = contacts]
  /\ file = db
  /\ now = 0
  /\ ioFails = 0
  /\ res = NoCall

NextRead ==
  \/ CallGetEntity(StoreTokens, {TRUE}, FewTypes, FewQueries, MaxReadRows)
  \/ CallUpdateEntity(StoreTokens, {TRUE}, FewTypes,
                      FewUpdateInputsByType, {FALSE},
                      MaxReadRows)
  \/ CallAddUser(StoreTokens, {TRUE}, FewUserInputs, Ids, {FALSE},
                 MaxReadRows)
  \/ CallAddContact(StoreTokens, {TRUE}, FewContactInputs, Ids, {FALSE},
                    MaxReadRows)

SpecRead == InitRead /\ [][NextRead]_vars

\* The server started with or without ENCRYPTION_KEY in its environment.
Environments == { SuppliedEnv, BareEnv }

InitStart ==
  /\ \E environment \in Environments : Started(environment)
  /\ initialized = "pending"
  /\ db = EmptyDB
  /\ file = EmptyDB
  /\ now = 0
  /\ ioFails = 0
  /\ res = NoCall

NextStart ==
  \/ InitializeDatabase
  \/ CallAddUser(StoreTokens, {TRUE}, UserInputs, Ids, MayFail, MaxRows)
  \/ CallAddContact(StoreTokens, {TRUE}, ContactInputs, Ids, MayFail,
                    MaxRows)
  \/ CallUpdateEntity(StoreTokens, {TRUE}, FewTypes,
                      FewUpdateInputsByType, MayFail,
                      MaxRows)
  \/ CallGetEntity(StoreTokens, {TRUE}, FewTypes, FewQueries, MaxRows)

SpecStart == InitStart /\ [][NextStart]_vars

----------------------------------------------------------------------------
(* Calls in flight.  Every store method is async and starts with           *)
(* await this.initialized, so a call is suspended there, also when the     *)
(* promise has settled, and resumes as a job of the promise job queue; the *)
(* code between two awaits runs without interruption.                      *)

\* the calls that arrive
FlightCalls ==
  { [tool |-> "add-user", type |-> "user", args |-> input] :
      input \in FewUserInputs }
  \cup { [tool |-> "add-contact", type |-> "contact", args |-> input] :
           input \in FewContactInputs }
  \cup { [tool |-> "update-entity", type |-> type, args |-> input] :
           type \in FewTypes,
           input \in FewUpdateInputs("user") \cup FewUpdateInputs("contact") }
  \cup { [tool |-> "get-entity", type |-> type, args |-> query] :
           type \in FewTypes, query \in FewQueries }

\* the number the next arriving call gets: every call that has arrived is
\* still suspended or has run its first part
Arrived ==
  { inflight[i].seq : i \in DOMAIN inflight } \cup
  { log[i].seq : i \in DOMAIN log }

\* the rows of a table with a given id, in table order
RowsOf(d, table, id) == SelectSeq(d[table], LAMBDA r : r.id = id)

\* A message arrives: the handler runs the type guard and validateAuth and
\* calls the store method, which suspends at await this.initialized.
Arrive ==
  /\ ~proc.exited
  /\ Cardinality(Arrived) < MaxCalls
  /\ \E c \in FlightCalls :
       inflight' = Append(inflight,
                          [seq |-> Cardinality(Arrived) + 1, tool |-> c.tool,
                           type |-> c.type, args |-> c.args,
                           stage |-> "body",
                           early |-> (initialized = "pending"),
                           wrote |-> <<>>])
  /\ UNCHANGED <<initialized, db, file, now, ioFails, res, env, proc, log,
                 pdb, pres>>

\* faulty variant: the job queue hands out the newest job first
NextToRunNewest(queue) == Len(queue)

\* the promise job queue is first in, first out
NextToRun(queue) == 1

Without(queue, i) ==
  [j \in 1 .. (Len(queue) - 1) |-> IF j < i THEN queue[j] ELSE queue[j + 1]]

\* SQLiteDB.close after its await: the final export, then this.db.close()
CloseBody == AwaitInitialized(Returned(db, db, NoValue))

\* what a suspended call does when it resumes, up to its next await or its
\* return
ResumedPart(c, id, iv, ioFail) ==
  IF c.stage = "reread" THEN GetEntity(c.type, [id |-> c.args.id])
  ELSE IF c.stage = "close" THEN CloseBody
  ELSE CASE c.tool = "add-user" -> AddUser(c.args, id, iv, ioFail)
         [] c.tool = "add-contact" -> AddContact(c.args, id, iv, ioFail)
         [] c.tool = "update-entity" ->
              AwaitInitialized(UpdateEntityWrite(c.type, c.args, iv, ioFail))
         [] c.tool = "get-entity" -> GetEntity(c.type, c.args)

\* updateEntity has written and now calls getEntity, which suspends again
Suspends(c, part) ==
  c.stage = "body" /\ c.tool = "update-entity" /\ part.status = "ok"

\* The job queue runs the next suspended call, once the promise it awaits
\* has settled.
Resume ==
  /\ ~proc.exited
  /\ inflight # <<>>
  /\ initialized # "pending"
  /\ LET i == NextToRun(inflight)
         c == inflight[i]
     IN \E id \in Ids, iv \in IVs :
          LET part == ResumedPart(c, id, iv, FALSE)
              wrote == IF Suspends(c, part)
                         THEN RowsOf(part.db, TableOf(c.type), c.args.id)
                         ELSE c.wrote
          IN
          /\ db' = part.db
          /\ file' = part.file
          /\ proc' = IF c.stage = "close" /\ part.status = "ok"
                       THEN [proc EXCEPT !.closed = @ + 1] ELSE proc
          /\ inflight' =
                IF Suspends(c, part)
                  THEN Append(Without(inflight, i),
                              [c EXCEPT !.stage = "reread", !.wrote = wrote])
                  ELSE Without(inflight, i)
          /\ log' = Append(log, [seq |-> c.seq, tool |-> c.tool,
                                  type |-> c.type, stage |-> c.stage,
                                  early |-> c.early, status |-> part.status,
                                  errType |-> part.errType,
                                  code |-> part.code, wrote |-> wrote])
          /\ res' = IF Suspends(c, part) THEN NoCall
                    ELSE [tool |-> c.tool, type |-> c.type, shapeOk |-> TRUE,
                          token |-> GoodToken(AllScopes), args |-> c.args,
                          called |-> TRUE, status |-> part.status,
                          errType |-> part.errType, code |-> part.code,
                          value |-> part.value,
                          response |-> Response(part.status, part.errType)]
  /\ UNCHANGED <<initialized, now, ioFails, env, pdb, pres>>

\* SIGINT, SIGTERM, or main() rejecting: the handler calls db.close(), which
\* suspends at its await and returns a promise nobody awaits, and then
\* process.exit(), which ends the process with the job queue as it is.
ShutdownPaths == {"SIGINT", "SIGTERM", "fatal"}

Shutdown ==
  /\ ~proc.exited
  /\ \E path \in ShutdownPaths :
       proc' = [proc EXCEPT !.exited = TRUE, !.by = path]
  /\ inflight' = Append(inflight,
                        [seq |-> 0, tool |-> "close", type |-> "none",
                         args |-> NoArgs, stage |-> "close",
                         early |-> (initialized = "pending"),
                         wrote |-> <<>>])
  /\ UNCHANGED <<initialized, db, file, now, ioFails, res, env, log, pdb,
                 pres>>

InitFlight ==
  /\ Started(SuppliedEnv)
  /\ initialized = "pending"
  /\ db = EmptyDB
  /\ file = EmptyDB
  /\ now = 0
  /\ ioFails = 0
  /\ res = NoCall

NextFlight ==
  \/ InitializeDatabase
  \/ Arrive
  \/ Resume
  \/ Shutdown

SpecFlight == InitFlight /\ [][NextFlight]_vars

----------------------------------------------------------------------------
(* PersonalContextDB (db.ts): the store over one personal_info table, on  *)
(* better-sqlite3, whose statements run synchronously against the file    *)

\* the empty string, which `if (query.id)` takes for an absent id
EmptyId == 0

\* ids a caller passes to updatePersonalInfo
IdArgs == Ids \cup {EmptyId}

PersonalData ==
  { [a |-> <<"0">>, b |-> <<"2">>], [a |-> <<"1">>], [c |-> <<"3">>] }

PersonalInfos ==
  { [type |-> "contact", name |-> N1, relationship |-> N2,
     data |-> [a |-> <<"0">>, b |-> <<"2">>]],
    [type |-> "context", name |-> N2, data |-> [a |-> <<"1">>]] }

PersonalResult(method, args, status, code, value) ==
  [method |-> method, args |-> args, status |-> status, code |-> code,
   value |-> value]

\* PersonalContextDB.addPersonalInfo
AddPersonalInfo(info, id, iv) ==
  LET row == [id |-> id, type |-> info.type, name |-> info.name,
              relationship |-> OrElse(info, "relationship", NullText),
              encrypted_data |-> Stringify(Encrypt(info.data, iv)),
              created_at |-> now, updated_at |-> now]
      dto == [id |-> id, type |-> info.type, name |-> info.name,
              relationship |-> OrElse(info, "relationship", <<"undefined">>),
              data |-> info.data, createdAt |-> now, updatedAt |-> now]
  IN
  /\ Len(pdb) < MaxPersonalRows
  /\ IF \E i \in DOMAIN pdb : pdb[i].id = id
       THEN /\ pdb' = pdb
            /\ pres' = PersonalResult("addPersonalInfo", info, "error",
                                       "DB_ERROR", NoValue)
       ELSE /\ pdb' = Append(pdb, row)
            /\ pres' = PersonalResult("addPersonalInfo", info, "ok", "none",
                                       dto)

\* the rows `SELECT * FROM personal_info WHERE 1=1 [AND id = ?]` yields for
\* getPersonalInfo({ id }): a falsy id adds no condition
SelectPersonalInfo(rows, id) ==
  SelectSeq(rows, LAMBDA r : id = EmptyId \/ r.id = id)

\* the PersonalInfo that getPersonalInfo builds from a row
PersonalInfoOf(row) ==
  [id |-> row.id, type |-> row.type, name |-> row.name,
   relationship |-> IF row.relationship = NullText THEN <<"undefined">>
                    ELSE row.relationship,
   data |-> Decrypt(Parse(row.encrypted_data)),
   createdAt |-> row.created_at, updatedAt |-> row.updated_at]

\* { ...existing.data, ...data }
MergeData(existing, data) == Spread(existing, data)

\* PersonalContextDB.updatePersonalInfo: stmt.get gives the first selected
\* row, or undefined
UpdatePersonalInfo(id, data, iv) ==
  LET found == SelectPersonalInfo(pdb, id)
      args == [id |-> id, data |-> data]
  IN
  IF found = <<>>
    THEN /\ pdb' = pdb
         /\ pres' = PersonalResult("updatePersonalInfo", args, "error",
                                    "NOT_FOUND", NoValue)
    ELSE LET existing == PersonalInfoOf(found[1])
             updatedData == MergeData(existing.data, data)
         IN /\ pdb' = [i \in DOMAIN pdb |->
                         IF pdb[i].id = id
                           THEN [pdb[i] EXCEPT
                                   !.encrypted_data =
                                      Stringify(Encrypt(updatedData, iv)),
                                   !.updated_at = now]
                           ELSE pdb[i]]
            /\ pres' = PersonalResult("updatePersonalInfo", args, "ok",
                                       "none",
                                       [existing EXCEPT
                                          !.data = updatedData,
                                          !.updatedAt = now])

CallAddPersonalInfo ==
  /\ \E info \in PersonalInfos, id \in Ids, iv \in IVs :
       AddPersonalInfo(info, id, iv)
  /\ UNCHANGED <<initialized, db, file, now, ioFails, res, env, proc,
                 inflight, log>>

CallUpdatePersonalInfo ==
  /\ \E id \in IdArgs, data \in PersonalData, iv \in IVs :
       UpdatePersonalInfo(id, data, iv)
  /\ UNCHANGED <<initialized, db, file, now, ioFails, res, env, proc,
                 inflight, log>>

\* the clock of the PersonalContextDB runs
PersonalTick ==
  /\ now < MaxTime
  /\ now' = now + 1
  /\ pres' = NoResult
  /\ UNCHANGED <<initialized, db, file, ioFails, res, env, proc, inflight,
                 log, pdb>>

NextPersonal ==
  \/ CallAddPersonalInfo
  \/ CallUpdatePersonalInfo
  \/ PersonalTick

SpecPersonal == Init /\ [][NextPersonal]_vars

----------------------------------------------------------------------------
(* Vocabulary of the properties *)

EncryptedColumns(table) ==
  CASE table = "users" -> {"encrypted_preferences"}
    [] table = "contacts" -> {"encrypted_data"}
    [] table = "emails" -> {"encrypted_body", "encrypted_attachments"}
    [] table = "calendar_items" ->
         {"encrypted_description", "encrypted_metadata"}
    [] table = "oauth_tokens" -> {"encrypted_tokens"}

\* plaintext columns holding a text
TextColumns(table) ==
  CASE table = "users" -> {"email", "name"}
    [] table = "contacts" -> {"first_name", "last_name"}
    [] table = "emails" -> {"subject", "sender", "thread_id"}
    [] table = "calendar_items" ->
         {"title", "start_time", "end_time", "location", "recurrence"}
    [] table = "oauth_tokens" -> {"provider", "expires_at"}

\* plaintext columns holding the JSON text of a list
JsonColumns(table) ==
  CASE table = "emails" -> {"recipients", "labels"}
    [] table = "calendar_items" -> {"attendees"}
    [] table = "oauth_tokens" -> {"scopes"}
    [] OTHER -> {}

IntColumns(table) ==
  IF table = "users" THEN {"id", "created_at", "updated_at"}
  ELSE {"id", "user_id", "created_at", "updated_at"}

\* the values the inputs give to sensitive fields
SensitiveValues ==
  { <<"p1">>, <<"p2">>, <<"e1">>, <<"e2">>, <<"ph1">>, <<"b1">>, <<"a1">>,
    <<"d1">>, <<"at1">>, <<"rt1">> }

\* the column text is JSON.stringify of an {iv, content} envelope whose
\* content is ciphertext
IsEnvelopeText(text) ==
  /\ DOMAIN text = {"json"}
  /\ DOMAIN text.json = {"iv", "content"}
  /\ text.json.iv \in IVs
  /\ text.json.content.alg = "aes"

RowKeepsSecrets(table, row) ==
  /\ DOMAIN row = EncryptedColumns(table) \cup TextColumns(table)
                    \cup JsonColumns(table) \cup IntColumns(table)
  /\ \A c \in EncryptedColumns(table) : IsEnvelopeText(row[c])
  /\ \A c \in TextColumns(table) : row[c] \notin SensitiveValues
  /\ \A c \in JsonColumns(table) : Parse(row[c]) \notin SensitiveValues

KeepsSecrets(d) ==
  \A table \in Tables : \A i \in DOMAIN d[table] :
     RowKeepsSecrets(table, d[table][i])

AddTable(tool) ==
  CASE tool = "add-user" -> "users"
    [] tool = "add-contact" -> "contacts"
    [] tool = "add-email" -> "emails"
    [] tool = "add-calendar-item" -> "calendar_items"
    [] tool = "add-oauth-token" -> "oauth_tokens"

\* the rows of a table with a given id
RowsWithId(d, table, id) == { r \in Range(d[table]) : r.id = id }

\* the decrypted sensitive bundle of a contact row
Bundle(row) == Decrypt(Parse(row.encrypted_data))

----------------------------------------------------------------------------
(* C1 *)

\* C1: after any sequence of add and update operations, every persisted row
\* (in the database and in the exported file) holds its sensitive fields
\* only inside an {iv, content} envelope produced by encrypt, and no
\* sensitive value sits in a plaintext column.
C1_SensitiveOnlyInEnvelopes == KeepsSecrets(db) /\ KeepsSecrets(file)

\* a contact with sensitive emails has been updated and exported
C1_Witness ==
  /\ res.tool = "update-entity" /\ res.type = "contact" /\ res.status = "ok"
  /\ \E r \in Range(file.contacts) : Bundle(r).emails = <<"e2">>

----------------------------------------------------------------------------
(* C2 *)

\* the token of call r does not verify at time t, or lacks the scope the
\* dispatcher requires for r's operation
Unauthorized(r, t) ==
  /\ r.tool # "none"
  /\ \/ ~r.token.bearer
     \/ r.token.sig # "good"
     \/ Seconds(t) >= r.token.exp
     \/ ~r.token.hasScopes
     \/ RequiredScope(r.tool, r.type) \notin r.token.scopes

\* C2 as stated: every tool call whose token does not verify or lacks the
\* required scope ends with an authorization error, without any store method
\* having been invoked and with no row inserted or modified.
C2_Original ==
  [][Unauthorized(res', now') =>
       /\ res'.response = "authorization_error"
       /\ ~res'.called
       /\ db' = db /\ file' = file]_vars

\* C2 amended: every tool call whose token does not verify or lacks the
\* required scope invokes no store method and inserts or modifies no row; it
\* ends with an authorization error when its arguments pass the tool's
\* type guard, and with an invalid-input error when they do not.
C2_UnauthorizedNeverReachesStore ==
  [][Unauthorized(res', now') =>
       /\ ~res'.called
       /\ db' = db /\ file' = file
       /\ res'.response = IF res'.shapeOk THEN "authorization_error"
                                          ELSE "invalid_input"]_vars

\* a well-formed update of an existing row was refused for its scope
C2_Witness ==
  /\ res.tool = "update-entity" /\ res.shapeOk
  /\ res.code = "INSUFFICIENT_SCOPE"
  /\ res.response = "authorization_error"
  /\ TotalRows(db) > 0

----------------------------------------------------------------------------
(* C3 *)

\* C3: a successful update of an existing contact shallow-merges the data
\* over the contact's decrypted bundle: every key absent from the data keeps
\* its prior value, every key present takes the new one.
C3_UpdateMergesBundle ==
  [][(/\ res'.tool = "update-entity" /\ res'.type = "contact"
      /\ res'.status = "ok")
     => \A i \in DOMAIN db.contacts :
          db.contacts[i].id = res'.args.id =>
            LET old == Bundle(db.contacts[i])
                new == Bundle(db'.contacts[i])
                data == res'.args.data
            IN /\ \A k \in DOMAIN old \ DOMAIN data :
                    k \in DOMAIN new /\ new[k] = old[k]
               /\ \A k \in DOMAIN data \ {"firstName", "lastName"} :
                    k \in DOMAIN new /\ new[k] = data[k]]_vars

----------------------------------------------------------------------------
(* C4 *)

\* C4: an update whose id matches no row of its kind fails with NOT_FOUND
\* and leaves every persisted row unchanged.
C4_UpdateAbsentIdNotFound ==
  [][(/\ res'.tool = "update-entity" /\ res'.called
      /\ res'.type \in {"user", "contact"}
      /\ initialized = "resolved"
      /\ res'.args.id \notin RowIds(db, TableOf(res'.type)))
     => /\ res'.status = "error"
        /\ res'.code = "NOT_FOUND"
        /\ db' = db]_vars

----------------------------------------------------------------------------
(* C5 *)

\* C5: when an add or update call of the store returns an error, a
\* subsequent get sees the state from before the call.
C5_FailedCallLeavesNoTrace ==
  [][(/\ res'.tool \in AddTools \cup {"update-entity"}
      /\ res'.called
      /\ res'.status = "error")
     => db' = db]_vars

----------------------------------------------------------------------------
(* C6 *)

\* C6: an add returns its DTO only after the row insert has succeeded and
\* the database has been exported to the file within that call.
C6_AddReturnsAfterExport ==
  (res.tool \in AddTools /\ res.status = "ok")
    => /\ \E r \in Range(db[AddTable(res.tool)]) :
            /\ r.id = res.value.id
            /\ r.created_at = res.value.createdAt
            /\ r \in Range(file[AddTable(res.tool)])
       /\ file = db

\* an add returned its DTO after an earlier export had failed
C6_Witness ==
  /\ res.tool \in AddTools /\ res.status = "ok"
  /\ ioFails > 0
  /\ TotalRows(file) > 0

----------------------------------------------------------------------------
(* C7 *)

LowerText(text) == [i \in DOMAIN text |-> Lower(text[i])]

\* q occurs in text, letter case ignored
Contains(text, q) ==
  \E i \in 0..(Len(text) - Len(q)) :
     SubSeq(LowerText(text), i + 1, i + Len(q)) = LowerText(q)

SearchColumns(type) ==
  IF type = "user" THEN {"email", "name"} ELSE {"first_name", "last_name"}

\* the row satisfies every filter the query supplies
MatchesFilters(type, query, row) ==
  /\ Has(query, "id") => row.id = query.id
  /\ (type = "contact" /\ Has(query, "userId")) => row.user_id = query.userId
  /\ Has(query, "query") =>
        \E c \in SearchColumns(type) : Contains(row[c], query.query)

\* C7: a get of users or contacts returns exactly the rows of that kind
\* that satisfy all supplied filters together (id, userId, substring of the
\* search columns): no other row, and every such row.
C7_GetReturnsMatchingRows ==
  (/\ res.tool = "get-entity" /\ res.called
   /\ res.type \in {"user", "contact"}
   /\ initialized = "resolved")
    => /\ res.status = "ok"
       /\ { res.value[i].id : i \in DOMAIN res.value }
            = { r.id : r \in { x \in Range(db[TableOf(res.type)]) :
                                  MatchesFilters(res.type, res.args, x) } }

----------------------------------------------------------------------------
(* C8 *)

\* C8: when add-contact has returned a DTO with id i, a get of contacts by
\* {id: i} returns exactly one contact, with that id, the names and emails
\* of the DTO, and createdAt equal to updatedAt.
C8_AddContactThenGetById ==
  [][(/\ res.tool = "add-contact" /\ res.status = "ok"
      /\ res'.tool = "get-entity" /\ res'.called /\ res'.type = "contact"
      /\ DOMAIN res'.args = {"id"}
      /\ res'.args.id = res.value.id)
     => /\ res'.status = "ok"
        /\ Len(res'.value) = 1
        /\ res'.value[1].id = res.value.id
        /\ res'.value[1].firstName = res.value.firstName
        /\ res'.value[1].lastName = res.value.lastName
        /\ res'.value[1].emails = res.value.emails
        /\ res'.value[1].createdAt = res'.value[1].updatedAt]_vars

----------------------------------------------------------------------------
(* C9 *)

\* C9: an update of an existing contact whose export succeeds completes
\* successfully, sets firstName and lastName to the values the data
\* supplies and leaves the column the data omits at its existing value.
C9_UpdateKeepsOmittedColumns ==
  [][(/\ res'.tool = "update-entity" /\ res'.called
      /\ res'.type = "contact"
      /\ initialized = "resolved"
      /\ ioFails' = ioFails
      /\ res'.args.id \in RowIds(db, "contacts"))
     => /\ res'.status = "ok"
        /\ \A i \in DOMAIN db.contacts :
             db.contacts[i].id = res'.args.id =>
               LET data == res'.args.data
                   old == db.contacts[i]
                   new == db'.contacts[i]
               IN /\ ~Has(data, "firstName")
                       => new.first_name = old.first_name
                  /\ ~Has(data, "lastName")
                       => new.last_name = old.last_name
                  /\ (Has(data, "firstName") /\ data.firstName # NullText)
                       => new.first_name = data.firstName
                  /\ (Has(data, "lastName") /\ data.lastName # NullText)
                       => new.last_name = data.lastName]_vars

----------------------------------------------------------------------------
(* C10 *)

\* C10: every row is created with created_at equal to updated_at, the time
\* of its add; no later operation changes its created_at; every successful
\* update of the row sets its updated_at to the time of that update; and
\* created_at <= updated_at in every row.
C10_CreatedAtKeptUpdatedAtRefreshed ==
  [][\A t \in Tables :
       /\ Len(db'[t]) >= Len(db[t])
       /\ \A i \in DOMAIN db'[t] :
            LET r == db'[t][i] IN
            /\ r.created_at <= r.updated_at
            /\ IF i \in DOMAIN db[t]
                 THEN /\ r.id = db[t][i].id
                      /\ r.created_at = db[t][i].created_at
                      /\ (/\ res'.tool = "update-entity"
                          /\ res'.status = "ok"
                          /\ TableOf(res'.type) = t
                          /\ r.id = res'.args.id) => r.updated_at = now'
                 ELSE r.created_at = now' /\ r.updated_at = now']_vars

\* a contact created at one instant has been updated at a later one
C10_Witness ==
  /\ res.tool = "update-entity" /\ res.type = "contact" /\ res.status = "ok"
  /\ \E r \in Range(db.contacts) :
       r.id = res.args.id /\ r.created_at < r.updated_at

----------------------------------------------------------------------------
(* C11 *)

\* the outcome of an add is an error that leaves database and file as they
\* are
FailsStoringNothing(call) ==
  call.status = "error" /\ call.db = db /\ call.file = file

----------------------------------------------------------------------------
(* C12 *)

\* the five kind tags of the tools' input schemas
KindTags == {"user", "contact", "email", "calendar-item", "oauth-token"}

\* C12: a get or update that reaches the store with one of the five kind
\* tags never fails with INVALID_TYPE; with any other tag it fails with
\* INVALID_TYPE and modifies no row.
C12_FiveKindsAccepted ==
  [][(/\ res'.tool \in {"update-entity", "get-entity"}
      /\ res'.called
      /\ initialized = "resolved")
     => IF res'.type \in KindTags
          THEN res'.code # "INVALID_TYPE"
          ELSE /\ res'.status = "error"
               /\ res'.code = "INVALID_TYPE"
               /\ db' = db]_vars

----------------------------------------------------------------------------
(* C13 *)

\* every authorization string of the model, issued at any time
TokenStrings ==
  Tokens \cup { MalformedToken }
    \cup PresentedTokens

\* C13: verifyToken returns claims exactly for a string that has the
\* "Bearer " prefix and whose remainder is correctly signed and unexpired;
\* every other string fails with AuthorizationError INVALID_TOKEN and with
\* nothing else.
C13_VerifyTokenInvalidToken ==
  \A token \in TokenStrings :
     LET v == VerifyToken(token, now) IN
     /\ v.ok <=> (/\ token.bearer
                  /\ token.sig = "good"
                  /\ Seconds(now) < token.exp)
     /\ ~v.ok => (v.errType = "AuthorizationError"
                   /\ v.code = "INVALID_TOKEN")

\* a correctly signed, correctly prefixed token has been refused because it
\* had expired
C13_Witness ==
  /\ res.tool = "get-entity" /\ ~res.called
  /\ res.code = "INVALID_TOKEN"
  /\ res.token.bearer /\ res.token.sig = "good"
  /\ Seconds(now) >= res.token.exp

----------------------------------------------------------------------------
(* C14 *)

\* C14: a well-formed call whose token verifies reaches the store if and
\* only if the scope its operation requires is an element of the token's
\* scopes; a token whose scopes are wildcards, prefixes or other verbs, or
\* whose scopes field is missing or not an array, reaches nothing.
C14_ScopeIsExactMembership ==
  (/\ res.tool # "none" /\ res.shapeOk
   /\ VerifyToken(res.token, now).ok)
    => /\ res.called <=> (/\ res.token.hasScopes
                          /\ RequiredScope(res.tool, res.type)
                                \in res.token.scopes)
       /\ ~res.called => res.code = "INSUFFICIENT_SCOPE"

\* a token holding only wildcard and prefix scopes was refused a write
C14_Witness ==
  /\ res.tool = "add-user" /\ res.shapeOk /\ ~res.called
  /\ res.token.scopes = WildcardScopes
  /\ res.code = "INSUFFICIENT_SCOPE"

----------------------------------------------------------------------------
(* C15 *)

\* the token of call r verifies at time t
Verifies(r, t) ==
  r.token.bearer /\ r.token.sig = "good" /\ Seconds(t) < r.token.exp

\* the token of call r holds the scope r's operation requires
HoldsScope(r) ==
  r.token.hasScopes /\ RequiredScope(r.tool, r.type) \in r.token.scopes

\* C15: a well-formed call is refused with AuthorizationError
\* INSUFFICIENT_SCOPE exactly when its token verifies but lacks the required
\* scope, with INVALID_TOKEN exactly when its token fails verification, and
\* with no other authorization code.
C15_AuthCodesDistinct ==
  (res.tool # "none" /\ res.shapeOk)
    => /\ res.code = "INSUFFICIENT_SCOPE"
            <=> (Verifies(res, now) /\ ~HoldsScope(res))
       /\ res.code = "INVALID_TOKEN" <=> ~Verifies(res, now)
       /\ res.errType = "AuthorizationError"
            <=> res.code \in {"INSUFFICIENT_SCOPE", "INVALID_TOKEN"}

\* a read was refused to a token that verifies and holds write scopes only
C15_Witness ==
  /\ res.tool = "get-entity" /\ res.shapeOk
  /\ res.code = "INSUFFICIENT_SCOPE"
  /\ "write:users" \in res.token.scopes

----------------------------------------------------------------------------
(* C16 *)

\* the authorization string built from the token generateToken issued at t0
IssuedAt(scopes, t0) == WithBearer(GenerateToken("u", scopes, t0))

Accepted(token) == VerifyToken(token, now).ok

Rejected(token) ==
  LET v == VerifyToken(token, now) IN
  ~v.ok /\ v.errType = "AuthorizationError" /\ v.code = "INVALID_TOKEN"

\* the claims carry the scopes the token was issued with
SameScopes(token, scopes) ==
  \A s \in AllScopes \cup WildcardScopes :
     ValidateScope(token, s) <=> s \in scopes

\* C16 as stated: a token issued at t0 is accepted, with its scopes, at
\* every time earlier than t0 + 1 hour and rejected with INVALID_TOKEN at
\* every time later than t0 + 1 hour.
C16_Original ==
  \A scopes \in IssuedScopes, t0 \in IssueTimes :
     t0 <= now =>
       /\ now < t0 + Hour
            => Accepted(IssuedAt(scopes, t0))
                 /\ SameScopes(IssuedAt(scopes, t0), scopes)
       /\ now > t0 + Hour => Rejected(IssuedAt(scopes, t0))

\* C16 amended: a token issued at t0 is accepted, with its scopes, exactly
\* while the whole-second clock is below the second of issue plus one hour:
\* at every time up to one second before t0 + 1 hour it is accepted, at
\* every time from t0 + 1 hour on it is rejected with INVALID_TOKEN, and
\* within the last second before t0 + 1 hour it may already be rejected.
C16_IssuedTokenValidForWholeSeconds ==
  \A scopes \in IssuedScopes, t0 \in IssueTimes :
     t0 <= now =>
       /\ Accepted(IssuedAt(scopes, t0))
            <=> Seconds(now) < Seconds(t0) + HourSeconds
       /\ Accepted(IssuedAt(scopes, t0))
            => SameScopes(IssuedAt(scopes, t0), scopes)
       /\ ~Accepted(IssuedAt(scopes, t0)) => Rejected(IssuedAt(scopes, t0))
       /\ now + TicksPerSecond <= t0 + Hour
            => Accepted(IssuedAt(scopes, t0))
       /\ now >= t0 + Hour => Rejected(IssuedAt(scopes, t0))

\* a token issued in the middle of a second has been refused less than an
\* hour after its issue
C16_Witness ==
  /\ res.tool = "get-entity" /\ res.code = "INVALID_TOKEN"
  /\ \E t0 \in IssueTimes :
       /\ t0 % TicksPerSecond # 0
       /\ res.token = IssuedAt(AllScopes, t0)
       /\ now < t0 + Hour

----------------------------------------------------------------------------
(* C17 *)

\* C17: the scope an add requires is "write:" followed by the kind and "s",
\* the same string update-entity requires for that kind, so the token of an
\* add that reached the store is also authorized to update that kind.
C17_AddScopeIsUpdateScope ==
  (res.tool \in AddTools /\ res.called)
    => /\ RequiredScope(res.tool, res.type)
            = RequiredScope("update-entity", res.type)
       /\ ValidateAuth(res.token,
                       RequiredScope("update-entity", res.type), now).ok

----------------------------------------------------------------------------
(* C18 *)

\* JSON values the callers hand over for the sensitive fields
JsonAtoms == SensitiveValues \cup { <<"{}">>, <<"[]">> }
JsonObjects == { ContactBundle(input) : input \in ContactInputs } \cup ContactData

\* decrypt accepts the envelope encrypt made of v and gives v back
RoundTrips(v, iv) ==
  /\ DecryptOk(Encrypt(v, iv))
  /\ Decrypt(Encrypt(v, iv)) = v

\* the row an add has just appended to a table
WrittenRow(table) == db[table][Len(db[table])]

----------------------------------------------------------------------------
(* C20 *)

\* the column text is not what encrypt writes under the key of the process
Corrupt(type, row) ==
  ~(/\ IsEnvelopeText(EnvelopeText(type, row))
    /\ Parse(EnvelopeText(type, row)).content.key = EncryptionKey)

----------------------------------------------------------------------------
(* C21 *)

\* the column text is an {iv, content} envelope whose iv is not the one
\* encrypt wrote, or whose content is no longer the ciphertext encrypt made
Tampered(type, row) ==
  /\ RowParses(type, row)
  /\ DOMAIN Parse(EnvelopeText(type, row)) = {"iv", "content"}
  /\ \/ Parse(EnvelopeText(type, row)).iv \notin IVs
     \/ Parse(EnvelopeText(type, row)).content.alg # "aes"

----------------------------------------------------------------------------
(* C26 *)

\* the decrypted preferences of a user row
Preferences(row) == Decrypt(Parse(row.encrypted_preferences))

\* C26: an update of an existing user whose data has no preferences key
\* leaves the stored preferences of that user decrypting to the value they
\* had before the update.
C26_UpdateUserKeepsPreferences ==
  [][(/\ res'.tool = "update-entity" /\ res'.called
      /\ res'.type = "user"
      /\ initialized = "resolved"
      /\ ~Has(res'.args.data, "preferences"))
     => \A i \in DOMAIN db.users :
          db.users[i].id = res'.args.id
            => Preferences(db'.users[i]) = Preferences(db.users[i])]_vars

----------------------------------------------------------------------------
(* C28 *)

\* every row of database d is a row of database e
KeepsRows(d, e) ==
  \A table \in Tables : Range(d[table]) \subseteq Range(e[table])

\* C28: constructing the store on a database path destroys nothing: the rows
\* an earlier instance exported to the file are in the database the new
\* instance reads from, and still in the file, once initialization has
\* resolved; a non-empty file is never replaced by an empty database.
C28_StartupKeepsExportedRows ==
  [][(initialized = "pending" /\ initialized' = "resolved")
       => /\ KeepsRows(file, db')
          /\ KeepsRows(file, file')]_vars

----------------------------------------------------------------------------
(* C30 *)

\* C30: the DTO that get builds for a contact row reports the id, first
\* name and last name held by the row's id, first_name and last_name
\* columns, whatever keys earlier updates supplied in their data.
C30_ContactDtoReportsColumns ==
  \A i \in DOMAIN db.contacts :
    LET row == db.contacts[i]
        dto == MapRowToEntity("contact", row)
    IN (RowParses("contact", row) /\ RowDecrypts("contact", row))
         => /\ dto.id = row.id
            /\ dto.firstName = row.first_name
            /\ dto.lastName = row.last_name

----------------------------------------------------------------------------
(* C22 *)

\* C22: when ENCRYPTION_KEY is not in the environment of the process the
\* store does not initialize and no tool call reaches it: whenever
\* initialization has resolved or a call has been served by the store, the
\* key in use is the one the operator supplied.
C22_NoKeyNoService ==
  (initialized = "resolved" \/ res.called)
    => /\ Has(env, "ENCRYPTION_KEY")
       /\ EncryptionKey = env.ENCRYPTION_KEY

----------------------------------------------------------------------------
(* C25 *)

\* the decrypted data of a personal_info row
PersonalDataOf(row) == Decrypt(Parse(row.encrypted_data))

\* C25: updatePersonalInfo(id, data) fails with NOT_FOUND and changes
\* nothing when no record has exactly that id; otherwise, on success, the
\* record with that id decrypts to the shallow merge of its previous data
\* with data, the merge is what is returned, and the record's type, name,
\* relationship and created_at are unchanged.
C25_UpdatePersonalInfoMerges ==
  [][(pres'.method = "updatePersonalInfo")
     => LET id == pres'.args.id
            data == pres'.args.data
        IN /\ (\A i \in DOMAIN pdb : pdb[i].id # id)
                => /\ pres'.status = "error"
                   /\ pres'.code = "NOT_FOUND"
                   /\ pdb' = pdb
           /\ \A i \in DOMAIN pdb :
                (pdb[i].id = id /\ pres'.status = "ok")
                  => /\ PersonalDataOf(pdb'[i])
                          = Spread(PersonalDataOf(pdb[i]), data)
                     /\ pres'.value.data = PersonalDataOf(pdb'[i])
                     /\ pdb'[i].type = pdb[i].type
                     /\ pdb'[i].name = pdb[i].name
                     /\ pdb'[i].relationship = pdb[i].relationship
                     /\ pdb'[i].created_at = pdb[i].created_at]_vars

----------------------------------------------------------------------------
(* C23 *)

\* C23: on every shutdown path the database handle is released exactly
\* once: when the process has exited, the final export and db.close() of
\* SQLiteDB.close have run, once.
C23_ClosedOnceBeforeExit ==
  proc.exited => proc.closed = 1

----------------------------------------------------------------------------
(* C24 *)

\* the first parts of the calls (the part that writes), as they ran
Bodies == SelectSeq(log, LAMBDA e : e.stage = "body")

\* C24: with several calls in flight, also calls that arrived before
\* initialization finished, the store operations run in the order in which
\* the calls arrived, and the write and the export of one add or update run
\* with nothing in between: no call ever finds the database ahead of the
\* file.
C24_ArrivalOrderAndAtomicWrites ==
  /\ \A i, j \in DOMAIN Bodies :
       i < j => Bodies[i].seq < Bodies[j].seq
  /\ initialized = "resolved" => file = db

\* two calls that arrived before initialization finished have both written
C24_Witness ==
  /\ Len(Bodies) = 2
  /\ \A i \in DOMAIN Bodies :
       /\ Bodies[i].early
       /\ Bodies[i].status = "ok"
       /\ Bodies[i].tool \in {"add-user", "add-contact", "update-entity"}
  /\ TotalRows(db) = 2

----------------------------------------------------------------------------
(* C27 *)

\* the DTOs of a sequence of rows
Dtos(type, rows) == [i \in DOMAIN rows |-> MapRowToEntity(type, rows[i])]

\* C27: a successful update returns the DTO of the entity with the given
\* id as this update persisted it, also with other calls in flight: never a
\* later write of another call, never an empty result for an entity that
\* exists.
C27_UpdateReturnsWhatItPersisted ==
  (/\ log # <<>>
   /\ log[Len(log)].stage = "reread"
   /\ log[Len(log)].status = "ok"
   /\ res.tool = "update-entity" /\ res.called)
    => /\ Len(res.value) = Len(log[Len(log)].wrote)
       /\ res.value = Dtos(res.type, log[Len(log)].wrote)

----------------------------------------------------------------------------
(* C29 *)

\* the entries a step adds to the log
Added(before, after) ==
  { after[i] : i \in (DOMAIN after) \ (DOMAIN before) }

\* C29: no store operation runs SQL or exports the file while
\* initialization is pending, and after a failed initialization every store
\* operation fails with a PersonalContextError DB_ERROR and writes nothing.
C29_NothingBeforeInitialization ==
  [][/\ (initialized = "pending" /\ initialized' = "pending")
          => UNCHANGED <<db, file, log>>
     /\ initialized = "rejected"
          => /\ UNCHANGED <<db, file>>
             /\ \A e \in Added(log, log') :
                  /\ e.status = "error"
                  /\ e.errType = "PersonalContextError"
                  /\ e.code = "DB_ERROR"]_vars

\* a call that arrived while initialization was pending has failed with
\* DB_ERROR after the initialization failed
C29_Witness ==
  /\ initialized = "rejected"
  /\ \E i \in DOMAIN log :
       /\ log[i].early
       /\ log[i].tool = "add-user"
       /\ log[i].code = "DB_ERROR"
  /\ db = EmptyDB

====
